---- MODULE Spec2Model ----
(***************************************************************************)
(* Stock and price synchronisation from a vendor spreadsheet to the Ozon   *)
(* ("seller", seller.py) and Yandex.Market ("market", market.py) APIs.     *)
(*                                                                         *)
(* Python strings whose characters matter (raw quantities, raw prices) are *)
(* sequences of one-character strings, so that str comparison, split, the  *)
(* regular expression and int() are computed character by character.       *)
(* Spreadsheet column names are transliterated: Kod = "Код",               *)
(* Kolichestvo = "Количество", Cena = "Цена".                              *)
(***************************************************************************)
EXTENDS Integers, Sequences, FiniteSets, TLC

VARIABLES
    pc,              \* position of the running program
    platform,        \* "seller" (seller.main) or "market" (market.main)
    watch_remnants,  \* inventory records, as download_stock returns them
    catalog,         \* known offer ids as the caller obtained them
    offer_ids,       \* main's local offer_ids (the list create_stocks mutates)
    stocks,          \* main's local stocks
    prices,          \* main's local prices
    todo,            \* chunks of the running upload loop still to send
    account,         \* market.main: the campaign being processed
    calls,           \* every API call issued so far, in order
    output,          \* console messages printed by the except clauses
    raised,          \* exception raised inside main so far, or NoException
    uncaught,        \* exception that left main unhandled, or NoException
    coroutines,      \* coroutine objects created by calling an async def
    warehouse_id,    \* warehouse id handed to market.create_stocks
    date,            \* the utcnow() reading of market.create_stocks
    lst,             \* the list handed to divide
    n,               \* the chunk size handed to divide
    server,          \* the marketplace's paginated product list
    result           \* values returned by the functions called directly

vars == <<pc, platform, watch_remnants, catalog, offer_ids, stocks, prices,
          todo, account, calls, output, uncaught, coroutines, warehouse_id,
          date, lst, n, result, raised, server>>

-----------------------------------------------------------------------------
(* Bounds of the model *)

MaxK == 3          \* longest known-offer-id list
MaxInv == 2        \* most inventory records
MaxQtyLen == 3     \* longest enumerated raw quantity string
MaxPriceLen == 4   \* longest enumerated raw price string
MaxLst == 5        \* longest list handed to divide
MaxN == 3          \* largest chunk size handed to divide
MaxMainK == 2      \* longest catalog a marketplace serves to main
MaxMainInv == 2    \* most inventory records the spreadsheet holds for main
MaxPages == 2      \* most pages a marketplace's product list has
MaxRequests == 4   \* page requests after which a run is no longer followed

\* Chunk sizes of the upload loops, scaled down so that lists within the
\* bounds above split into several chunks.
SELLER_STOCKS_CHUNK == 1   \* 100 in seller.main
SELLER_PRICES_CHUNK == 1   \* 900 in seller.main
MARKET_STOCKS_CHUNK == 1   \* 2000 in market.main

Ids == {"A", "B", "C"}

Unused == "-"
NotCalled == [called |-> FALSE]
NoException == "none"

-----------------------------------------------------------------------------
(* Python built-ins used by the transforms *)

\* All sequences over S of length lo..hi.
SeqsOf(S, lo, hi) == UNION {[1..len -> S] : len \in lo..hi}

Range(s) == {s[i] : i \in 1..Len(s)}

\* x in l, for a list l
In(x, l) == \E i \in 1..Len(l) : l[i] = x

ListRemove_none(l, x) == l

ListRemove_all(l, x) == SelectSeq(l, LAMBDA y : y # x)

\* l.remove(x): deletes the first occurrence (callers test "x in lst" first)
ListRemove(l, x) ==
    LET i == CHOOSE j \in 1..Len(l) :
                 l[j] = x /\ \A k \in 1..(j - 1) : l[k] # x
    IN  SubSeq(l, 1, i - 1) \o SubSeq(l, i + 1, Len(l))

DecimalDigits == {"0", "1", "2", "3", "4", "5", "6", "7", "8", "9"}

DigitValue(c) ==
    CASE c = "0" -> 0 [] c = "1" -> 1 [] c = "2" -> 2 [] c = "3" -> 3
      [] c = "4" -> 4 [] c = "5" -> 5 [] c = "6" -> 6 [] c = "7" -> 7
      [] c = "8" -> 8 [] c = "9" -> 9

RECURSIVE DigitsToNat(_)
DigitsToNat(s) ==
    IF s = <<>> THEN 0
    ELSE 10 * DigitsToNat(SubSeq(s, 1, Len(s) - 1)) + DigitValue(s[Len(s)])

\* str.strip() for the blank character
RECURSIVE PyStrip(_)
PyStrip(s) ==
    IF s = <<>> THEN s
    ELSE IF s[1] = " " THEN PyStrip(Tail(s))
    ELSE IF s[Len(s)] = " " THEN PyStrip(SubSeq(s, 1, Len(s) - 1))
    ELSE s

\* int(s) for a str s: blanks around the literal are ignored, one sign is
\* allowed, the rest must be a non-empty run of decimal digits; anything else
\* raises ValueError.
PyInt(s) ==
    LET t == PyStrip(s)
        signed == t # <<>> /\ t[1] \in {"-", "+"}
        body == IF signed THEN Tail(t) ELSE t
    IN  IF body # <<>> /\ \A i \in 1..Len(body) : body[i] \in DecimalDigits
        THEN [raised |-> FALSE,
              value |-> IF signed /\ t[1] = "-" THEN 0 - DigitsToNat(body)
                        ELSE DigitsToNat(body)]
        ELSE [raised |-> TRUE, exception |-> "ValueError"]

-----------------------------------------------------------------------------
(* seller.create_stocks and market.create_stocks *)

GT10 == <<">", "1", "0">>
ONE == <<"1">>

normalize_count_swapped(count) ==
    IF count = GT10 THEN [raised |-> FALSE, value |-> 0]
    ELSE IF count = ONE THEN [raised |-> FALSE, value |-> 100]
    ELSE PyInt(count)

\* the if / elif / else on count, seller.py 258-264 and market.py 207-213
normalize_count(count) ==
    IF count = GT10 THEN [raised |-> FALSE, value |-> 100]
    ELSE IF count = ONE THEN [raised |-> FALSE, value |-> 0]
    ELSE PyInt(count)

seller_stock(offer_id, stock) == [offer_id |-> offer_id, stock |-> stock]

market_stock(sku, stock, wh, dt) ==
    [sku |-> sku, warehouseId |-> wh,
     items |-> <<[count |-> stock, type |-> "FIT", updatedAt |-> dt]>>]

\* the first loop of seller.create_stocks from record i on; ids is the
\* caller's list, mutated as records match
RECURSIVE seller_match_loop(_, _, _, _)
seller_match_loop(wr, i, acc, ids) ==
    IF i > Len(wr) THEN [raised |-> FALSE, stocks |-> acc, offer_ids |-> ids]
    ELSE IF In(wr[i].Kod, ids)
         THEN LET stock == normalize_count(wr[i].Kolichestvo)
              IN  IF stock.raised
                  THEN [raised |-> TRUE, exception |-> stock.exception,
                        offer_ids |-> ids]
                  ELSE seller_match_loop(
                           wr, i + 1,
                           Append(acc, seller_stock(wr[i].Kod, stock.value)),
                           ListRemove(ids, wr[i].Kod))
         ELSE seller_match_loop(wr, i + 1, acc, ids)

seller_create_stocks_zeros_first(wr, ids) ==
    LET m == seller_match_loop(wr, 1, <<>>, ids)
    IN  IF m.raised THEN m
        ELSE [raised |-> FALSE,
              stocks |-> [j \in 1..Len(m.offer_ids) |->
                             seller_stock(m.offer_ids[j], 0)] \o m.stocks,
              offer_ids |-> m.offer_ids]

seller_create_stocks_partial(wr, ids) ==
    LET m == seller_match_loop(wr, 1, <<>>, ids)
    IN  [raised |-> FALSE,
         stocks |-> (IF m.raised THEN <<>> ELSE m.stocks) \o
             [j \in 1..Len(m.offer_ids) |-> seller_stock(m.offer_ids[j], 0)],
         offer_ids |-> m.offer_ids]

seller_create_stocks(wr, ids) ==
    LET m == seller_match_loop(wr, 1, <<>>, ids)
    IN  IF m.raised THEN m
        ELSE [raised |-> FALSE,
              stocks |-> m.stocks \o
                  [j \in 1..Len(m.offer_ids) |->
                      seller_stock(m.offer_ids[j], 0)],
              offer_ids |-> m.offer_ids]

RECURSIVE market_match_loop(_, _, _, _, _, _)
market_match_loop(wr, i, acc, ids, wh, dt) ==
    IF i > Len(wr) THEN [raised |-> FALSE, stocks |-> acc, offer_ids |-> ids]
    ELSE IF In(wr[i].Kod, ids)
         THEN LET stock == normalize_count(wr[i].Kolichestvo)
              IN  IF stock.raised
                  THEN [raised |-> TRUE, exception |-> stock.exception,
                        offer_ids |-> ids]
                  ELSE market_match_loop(
                           wr, i + 1,
                           Append(acc, market_stock(wr[i].Kod, stock.value,
                                                    wh, dt)),
                           ListRemove(ids, wr[i].Kod), wh, dt)
         ELSE market_match_loop(wr, i + 1, acc, ids, wh, dt)

market_create_stocks(wr, ids, wh, dt) ==
    LET m == market_match_loop(wr, 1, <<>>, ids, wh, dt)
    IN  IF m.raised THEN m
        ELSE [raised |-> FALSE,
              stocks |-> m.stocks \o
                  [j \in 1..Len(m.offer_ids) |->
                      market_stock(m.offer_ids[j], 0, wh, dt)],
              offer_ids |-> m.offer_ids]

-----------------------------------------------------------------------------
(* Direct calls of the stock transform on enumerated inputs *)

QtyChars == {">", "1", "0", "4", "2", " ", "-", "x"}

\* raw quantities of the general inventories: the two special values, a
\* plain number and a value int() rejects
RawQuantities == {GT10, ONE, <<"4", "2">>, <<"x">>}

\* the price column does not take part in the stock transform
StockRecord(k, q) == [Kod |-> k, Kolichestvo |-> q, Cena |-> <<"0">>]

StockInventories ==
    SeqsOf({StockRecord(k, q) : k \in Ids, q \in RawQuantities}, 0, MaxInv)

KnownLists == SeqsOf(Ids, 0, MaxK)

mainIdle ==
    /\ platform = Unused /\ offer_ids = Unused /\ stocks = Unused
    /\ prices = Unused /\ todo = Unused /\ account = Unused
    /\ calls = Unused /\ output = Unused /\ uncaught = Unused
    /\ coroutines = Unused /\ raised = Unused
    /\ lst = Unused /\ n = Unused /\ server = Unused

mainVars == <<platform, offer_ids, stocks, prices, todo, account, calls,
              output, uncaught, coroutines, lst, n, raised, server>>

InitStocks ==
    /\ pc = "direct"
    /\ mainIdle
    /\ warehouse_id = "WH"
    /\ date = "t0"
    /\ \/ /\ catalog \in KnownLists
          /\ watch_remnants \in StockInventories
       \/ /\ catalog = <<"A">>
          /\ \E q \in SeqsOf(QtyChars, 0, MaxQtyLen) :
                 watch_remnants = <<StockRecord("A", q)>>
    /\ result = [seller |-> NotCalled, market |-> NotCalled]

\* create_stocks(watch_remnants, list(catalog)) of seller.py
CallSellerCreateStocks ==
    /\ ~result.seller.called
    /\ result' = [result EXCEPT !.seller =
                     [called |-> TRUE,
                      ret |-> seller_create_stocks(watch_remnants, catalog)]]
    /\ UNCHANGED <<pc, watch_remnants, catalog, warehouse_id, date, mainVars>>

\* create_stocks(watch_remnants, list(catalog), warehouse_id) of market.py
CallMarketCreateStocks ==
    /\ ~result.market.called
    /\ result' = [result EXCEPT !.market =
                     [called |-> TRUE,
                      ret |-> market_create_stocks(watch_remnants, catalog,
                                                   warehouse_id, date)]]
    /\ UNCHANGED <<pc, watch_remnants, catalog, warehouse_id, date, mainVars>>

NextStocks == CallSellerCreateStocks \/ CallMarketCreateStocks

SpecStocks == InitStocks /\ [][NextStocks]_vars

-----------------------------------------------------------------------------
(* Properties of the stock transform *)

Variants == {"seller", "market"}

Returned(v) == result[v].called /\ ~result[v].ret.raised

\* what a returned stock list says, variant-independent: <<id, quantity>>
StockView(v) ==
    LET out == result[v].ret.stocks
    IN  [j \in 1..Len(out) |->
            IF v = "seller"
            THEN [id |-> out[j].offer_id, qty |-> out[j].stock]
            ELSE [id |-> out[j].sku, qty |-> out[j].items[1].count]]

Count(x, s) == Cardinality({i \in 1..Len(s) : s[i] = x})

NoRepeats(s) == \A i, j \in 1..Len(s) : i # j => s[i] # s[j]

HasRecord(id) == \E i \in 1..Len(watch_remnants) : watch_remnants[i].Kod = id

FirstRecord(id) ==
    watch_remnants[CHOOSE i \in 1..Len(watch_remnants) :
                       /\ watch_remnants[i].Kod = id
                       /\ \A k \in 1..(i - 1) : watch_remnants[k].Kod # id]

\* section 4.3 of the specification, as a table
NormalizedQuantity(raw) ==
    IF raw = <<">", "1", "0">> THEN 100
    ELSE IF raw = <<"1">> THEN 0
    ELSE PyInt(raw).value

C1_WitnessEmpty ==
    /\ Returned("seller") /\ watch_remnants = <<>> /\ Len(catalog) = MaxK
    /\ NoRepeats(catalog)

\* record i is one the first loop matches: fewer earlier records carry its
\* code than the known list holds occurrences of it
IsMatched(i) ==
    Count(watch_remnants[i].Kod, catalog) >
        Cardinality({k \in 1..(i - 1) :
                         watch_remnants[k].Kod = watch_remnants[i].Kod})

MatchedBefore(i) == Cardinality({k \in 1..i : IsMatched(k)})

IsSpecial(raw) == raw = <<">", "1", "0">> \/ raw = <<"1">>

-----------------------------------------------------------------------------
(* seller.price_conversion, seller.create_prices and market.create_prices *)

\* str.split(sep) for a one-character separator: the list of pieces
RECURSIVE PySplit(_, _)
PySplit(s, sep) ==
    IF \A i \in 1..Len(s) : s[i] # sep THEN <<s>>
    ELSE LET d == CHOOSE i \in 1..Len(s) :
                      s[i] = sep /\ \A k \in 1..(i - 1) : s[k] # sep
         IN  <<SubSeq(s, 1, d - 1)>> \o PySplit(SubSeq(s, d + 1, Len(s)), sep)

\* re.sub("[^0-9]", "", s)
RECURSIVE ReSubNonDigits(_)
ReSubNonDigits(s) ==
    IF s = <<>> THEN <<>>
    ELSE IF Head(s) \in DecimalDigits
         THEN <<Head(s)>> \o ReSubNonDigits(Tail(s))
         ELSE ReSubNonDigits(Tail(s))

price_conversion_nosplit(price) == ReSubNonDigits(price)

\* returns a str of digits, possibly empty
price_conversion(price) == ReSubNonDigits(PySplit(price, ".")[1])

seller_price(offer_id, price) ==
    [auto_action_enabled |-> "UNKNOWN", currency_code |-> "RUB",
     offer_id |-> offer_id, old_price |-> "0", price |-> price]

market_price(id, value) ==
    [id |-> id, price |-> [value |-> value, currencyId |-> "RUR"]]

seller_in_offer_ids_always(watch, ids) == TRUE

\* str(watch.get("Код")) in offer_ids, seller.py 302
seller_in_offer_ids(watch, ids) == In(watch.Kod, ids)

\* str(watch.get("Код")) in offer_ids, market.py 280
market_in_offer_ids(watch, ids) == In(watch.Kod, ids)

\* never raises for str prices; offer_ids is only read
RECURSIVE seller_prices_loop(_, _, _, _)
seller_prices_loop(wr, i, acc, ids) ==
    IF i > Len(wr) THEN [raised |-> FALSE, prices |-> acc, offer_ids |-> ids]
    ELSE IF seller_in_offer_ids(wr[i], ids)
         THEN seller_prices_loop(
                  wr, i + 1,
                  Append(acc, seller_price(wr[i].Kod,
                                           price_conversion(wr[i].Cena))),
                  ids)
         ELSE seller_prices_loop(wr, i + 1, acc, ids)

RECURSIVE seller_prices_loop_consuming(_, _, _, _)
seller_prices_loop_consuming(wr, i, acc, ids) ==
    IF i > Len(wr) THEN [raised |-> FALSE, prices |-> acc, offer_ids |-> ids]
    ELSE IF seller_in_offer_ids(wr[i], ids)
         THEN seller_prices_loop_consuming(
                  wr, i + 1,
                  Append(acc, seller_price(wr[i].Kod,
                                           price_conversion(wr[i].Cena))),
                  ListRemove(ids, wr[i].Kod))
         ELSE seller_prices_loop_consuming(wr, i + 1, acc, ids)

seller_create_prices_consuming(wr, ids) ==
    seller_prices_loop_consuming(wr, 1, <<>>, ids)

seller_create_prices(wr, ids) == seller_prices_loop(wr, 1, <<>>, ids)

\* int(price_conversion(...)) raises ValueError on the empty digit string
RECURSIVE market_prices_loop(_, _, _, _)
market_prices_loop(wr, i, acc, ids) ==
    IF i > Len(wr) THEN [raised |-> FALSE, prices |-> acc, offer_ids |-> ids]
    ELSE IF market_in_offer_ids(wr[i], ids)
         THEN LET value == PyInt(price_conversion(wr[i].Cena))
              IN  IF value.raised
                  THEN [raised |-> TRUE, exception |-> value.exception,
                        offer_ids |-> ids]
                  ELSE market_prices_loop(
                           wr, i + 1,
                           Append(acc, market_price(wr[i].Kod, value.value)),
                           ids)
         ELSE market_prices_loop(wr, i + 1, acc, ids)

market_create_prices(wr, ids) == market_prices_loop(wr, 1, <<>>, ids)

-----------------------------------------------------------------------------
(* Direct calls of the price transform on enumerated inputs *)

PriceChars == {"5", "9", "0", "'", ".", "r"}

\* "5'990.00 руб.", "1'200.00 руб." and "100 руб." ("r", "u", "b" stand for
\* the Cyrillic letters)
PRICE_5990 ==
    <<"5", "'", "9", "9", "0", ".", "0", "0", " ", "r", "u", "b", ".">>
PRICE_1200 ==
    <<"1", "'", "2", "0", "0", ".", "0", "0", " ", "r", "u", "b", ".">>
PRICE_100 == <<"1", "0", "0", " ", "r", "u", "b", ".">>

\* raw prices of the general inventories: a price with a fraction, one with
\* leading zeros and one without any digit before the first "."
RawPrices == {PRICE_5990, <<"0", "7", ".", "9">>, <<"r", ".", "5">>}

\* the quantity column does not take part in the price transform
PriceRecord(k, p) == [Kod |-> k, Kolichestvo |-> <<"0">>, Cena |-> p]

PriceInventories ==
    SeqsOf({PriceRecord(k, p) : k \in Ids, p \in RawPrices}, 0, MaxInv)

InitPrices ==
    /\ pc = "direct"
    /\ mainIdle
    /\ warehouse_id = Unused
    /\ date = Unused
    /\ \/ /\ catalog \in KnownLists
          /\ watch_remnants \in PriceInventories
       \/ /\ catalog = <<"A">>
          /\ \E p \in SeqsOf(PriceChars, 0, MaxPriceLen)
                          \cup {PRICE_5990, PRICE_1200, PRICE_100} :
                 watch_remnants = <<PriceRecord("A", p)>>
    /\ result = [seller |-> NotCalled, market |-> NotCalled]

\* create_prices(watch_remnants, catalog) of seller.py
CallSellerCreatePrices ==
    /\ ~result.seller.called
    /\ result' = [result EXCEPT !.seller =
                     [called |-> TRUE,
                      ret |-> seller_create_prices(watch_remnants, catalog)]]
    /\ UNCHANGED <<pc, watch_remnants, catalog, warehouse_id, date, mainVars>>

\* create_prices(watch_remnants, catalog) of market.py
CallMarketCreatePrices ==
    /\ ~result.market.called
    /\ result' = [result EXCEPT !.market =
                     [called |-> TRUE,
                      ret |-> market_create_prices(watch_remnants, catalog)]]
    /\ UNCHANGED <<pc, watch_remnants, catalog, warehouse_id, date, mainVars>>

NextPrices == CallSellerCreatePrices \/ CallMarketCreatePrices

SpecPrices == InitPrices /\ [][NextPrices]_vars

-----------------------------------------------------------------------------
(* Properties of the price transform *)

\* what a returned price list says: <<id, value>>; value is a str of digits
\* in the seller payload and an int in the market payload
PriceView(v) ==
    LET out == result[v].ret.prices
    IN  [j \in 1..Len(out) |->
            IF v = "seller"
            THEN [id |-> out[j].offer_id, value |-> out[j].price]
            ELSE [id |-> out[j].id, value |-> out[j].price.value]]

Known(id) == \E k \in 1..Len(catalog) : catalog[k] = id

\* C4: every entry create_prices returns (seller and market) carries an id
\* that is in the known list and is the code of an inventory record; a known
\* id without inventory record gets no entry; an empty inventory gives [].
C4_PriceSelectivity ==
    \A v \in Variants :
        Returned(v) =>
            LET out == PriceView(v)
            IN  /\ \A j \in 1..Len(out) : Known(out[j].id) /\ HasRecord(out[j].id)
                /\ \A k \in 1..Len(catalog) :
                       ~HasRecord(catalog[k]) =>
                           \A j \in 1..Len(out) : out[j].id # catalog[k]
                /\ watch_remnants = <<>> => out = <<>>

\* a known id with a record is priced, a known id without one is not, and an
\* inventory code unknown to the marketplace is passed over
C4_Witness ==
    /\ Returned("seller") /\ Returned("market")
    /\ Len(PriceView("seller")) >= 1 /\ Len(PriceView("market")) >= 1
    /\ \E k \in 1..Len(catalog) : ~HasRecord(catalog[k])
    /\ \E i \in 1..Len(watch_remnants) : ~Known(watch_remnants[i].Kod)

\* the digits of the part of raw before its first ".", in order
DigitsBeforeDot(raw) ==
    LET dots == {i \in 1..Len(raw) : raw[i] = "."}
        cut == IF dots = {} THEN Len(raw)
               ELSE (CHOOSE i \in dots : \A k \in dots : i <= k) - 1
    IN  SelectSeq(SubSeq(raw, 1, cut), LAMBDA c : c \in DecimalDigits)

PricedBefore(i) ==
    Cardinality({k \in 1..i : Known(watch_remnants[k].Kod)})

\* C9 as stated: every raw price of a matched record comes out, in the seller
\* and in the market transform, as the integer read from the digits before
\* the first ".".
C9_AsStated ==
    \A v \in Variants :
        result[v].called =>
            /\ ~result[v].ret.raised
            /\ \A i \in 1..Len(watch_remnants) :
                   Known(watch_remnants[i].Kod) =>
                       LET e == PriceView(v)[PricedBefore(i)]
                           d == DigitsBeforeDot(watch_remnants[i].Cena)
                       IN  /\ d # <<>>
                           /\ IF v = "seller"
                              THEN PyInt(e.value).value = DigitsToNat(d)
                              ELSE e.value = DigitsToNat(d)

\* C9 amended: price_conversion keeps the digits before the first "." in
\* order. The seller transform emits that digit string itself (leading zeros
\* kept, empty when no digit precedes the "."); the market transform emits
\* its integer value and raises ValueError when it is empty. Fractions are
\* cut, never rounded.
C9_PriceNormalization ==
    \A v \in Variants :
        result[v].called =>
            LET r == result[v].ret
                matched == {i \in 1..Len(watch_remnants) :
                                Known(watch_remnants[i].Kod)}
                digitless == {i \in matched :
                                  DigitsBeforeDot(watch_remnants[i].Cena) = <<>>}
            IN  /\ r.raised <=> (v = "market" /\ digitless # {})
                /\ ~r.raised =>
                       \A i \in matched :
                           LET e == PriceView(v)[PricedBefore(i)]
                               raw == watch_remnants[i].Cena
                               d == DigitsBeforeDot(raw)
                           IN  /\ e.id = watch_remnants[i].Kod
                               /\ v = "seller" => e.value = d
                               /\ v = "market" => e.value = DigitsToNat(d)
                               /\ (v = "market" /\ raw = PRICE_5990) =>
                                      e.value = 5990
                               /\ (v = "market" /\ raw = PRICE_1200) =>
                                      e.value = 1200
                               /\ (v = "market" /\ raw = PRICE_100) =>
                                      e.value = 100
                               /\ (v = "market" /\ raw = <<"5", ".", "9", "9">>)
                                      => e.value = 5
                               /\ (v = "seller" /\ raw = PRICE_5990) =>
                                      e.value = <<"5", "9", "9", "0">>

\* "5'990.00 руб." priced 5990 by the market transform and "5990" by the
\* seller transform
C9_Witness ==
    /\ Returned("seller") /\ Returned("market")
    /\ watch_remnants = <<PriceRecord("A", PRICE_5990)>>
    /\ catalog = <<"A">>
    /\ PriceView("market")[1].value = 5990
    /\ PriceView("seller")[1].value = <<"5", "9", "9", "0">>

-----------------------------------------------------------------------------
(* seller.divide *)

Min(a, b) == IF a <= b THEN a ELSE b

PySlice_short(s, a, b) == SubSeq(s, Min(a, Len(s)) + 1, Min(b, Len(s)) - 1)

\* s[a:b] for 0 <= a <= b, positions counted from 0
PySlice(s, a, b) == SubSeq(s, Min(a, Len(s)) + 1, Min(b, Len(s)))

\* list(divide(l, size)) for size > 0: the chunks from offset i on
RECURSIVE divide_from(_, _, _)
divide_from(l, size, i) ==
    IF i >= Len(l) THEN <<>>
    ELSE <<PySlice(l, i, i + size)>> \o divide_from(l, size, i + size)

divide(l, size) == divide_from(l, size, 0)

Elements == {"a", "b"}

\* the generator object divide(lst, n) before its first next()
InitDivide ==
    /\ pc = "direct"
    /\ platform = Unused /\ offer_ids = Unused /\ stocks = Unused
    /\ prices = Unused /\ todo = Unused /\ account = Unused
    /\ calls = Unused /\ output = Unused /\ uncaught = Unused
    /\ coroutines = Unused /\ raised = Unused
    /\ watch_remnants = Unused /\ catalog = Unused
    /\ warehouse_id = Unused /\ date = Unused /\ server = Unused
    /\ lst \in SeqsOf(Elements, 0, MaxLst)
    /\ n \in 1..MaxN
    /\ result = [i |-> 0, chunks |-> <<>>, exhausted |-> FALSE]

dividePassive == <<pc, platform, offer_ids, stocks, prices, todo, account,
                   calls, output, uncaught, coroutines, watch_remnants,
                   catalog, warehouse_id, date, lst, n, raised, server>>

\* next() on the generator while range(0, len(lst), n) has a value left
DivideYield ==
    /\ ~result.exhausted
    /\ result.i < Len(lst)
    /\ result' = [result EXCEPT
                     !.chunks = Append(@, PySlice(lst, result.i, result.i + n)),
                     !.i = @ + n]
    /\ UNCHANGED dividePassive

\* next() on the generator once the range is used up: StopIteration
DivideStop ==
    /\ ~result.exhausted
    /\ result.i >= Len(lst)
    /\ result' = [result EXCEPT !.exhausted = TRUE]
    /\ UNCHANGED dividePassive

NextDivide == DivideYield \/ DivideStop

SpecDivide == InitDivide /\ [][NextDivide]_vars

RECURSIVE Flatten(_)
Flatten(ss) == IF ss = <<>> THEN <<>> ELSE Head(ss) \o Flatten(Tail(ss))

\* C10: for a sequence of length L and a chunk size N > 0, divide yields
\* ceil(L/N) chunks (none for the empty sequence), each but the last of
\* exactly N elements, the last of 1..N, and the chunks concatenated in yield
\* order are the sequence; list(divide(lst, n)) is that same list of chunks.
C10_BatchSplitting ==
    /\ result.exhausted =>
           LET c == result.chunks
           IN  /\ Len(c) = (Len(lst) + n - 1) \div n
               /\ lst = <<>> => c = <<>>
               /\ \A j \in 1..(Len(c) - 1) : Len(c[j]) = n
               /\ c # <<>> => Len(c[Len(c)]) \in 1..n
               /\ Flatten(c) = lst
               /\ divide(lst, n) = c
    /\ Flatten(result.chunks) = SubSeq(lst, 1, Min(result.i, Len(lst)))

\* a sequence split into full chunks and a shorter last one
C10_Witness ==
    /\ result.exhausted
    /\ Len(result.chunks) >= 2
    /\ Len(result.chunks[Len(result.chunks)]) < n

-----------------------------------------------------------------------------
(* seller.main and market.main *)

MainIds == {"A", "B"}

MainKnownLists == SeqsOf(MainIds, 0, MaxMainK)

GOOD_PRICE == <<"5", "'", "9", ".", "0">>
NO_DIGIT_PRICE == <<"r", ".">>

\* rows of the spreadsheet: a well-formed row, a row whose quantity is no
\* integer literal and a row whose price has no digit before the "."
MainRecords ==
    UNION {{[Kod |-> k, Kolichestvo |-> GT10, Cena |-> GOOD_PRICE],
            [Kod |-> k, Kolichestvo |-> <<"x">>, Cena |-> GOOD_PRICE],
            [Kod |-> k, Kolichestvo |-> ONE, Cena |-> NO_DIGIT_PRICE]} :
           k \in MainIds}

MainInventories == SeqsOf(MainRecords, 0, MaxMainInv)

\* what requests raises for a request: requests.exceptions.ReadTimeout,
\* requests.exceptions.ConnectionError, and HTTPError from raise_for_status
RequestErrors == {"ReadTimeout", "ConnectionError", "HTTPError"}

\* download_stock also fails on the archive or the spreadsheet
DownloadErrors == RequestErrors \cup {"BadZipFile"}

Call(op, acct, payload, ok) ==
    [op |-> op, account |-> acct, payload |-> payload, ok |-> ok]

\* the three except clauses, seller.py 396-401 and market.py 343-348
except_clauses(e) ==
    IF e = "ReadTimeout"
    THEN [message |-> "timed out", error |-> "-"]
    ELSE IF e = "ConnectionError"
         THEN [message |-> "connection error", error |-> e]
         ELSE [message |-> "ERROR_2", error |-> e]

seller_try_retry(e) ==
    /\ output' = Append(output, except_clauses(e))
    /\ raised' = e
    /\ pc' = pc
    /\ UNCHANGED uncaught

\* an exception raised inside the try block of seller.main
seller_try(e) ==
    /\ output' = Append(output, except_clauses(e))
    /\ raised' = e
    /\ pc' = "done"
    /\ UNCHANGED uncaught

\* an exception raised inside the try block of market.main
market_try(e) ==
    /\ output' = Append(output, except_clauses(e))
    /\ raised' = e
    /\ pc' = "done"
    /\ UNCHANGED uncaught

\* an exception raised in market.main before the try block is entered
market_no_try(e) ==
    /\ uncaught' = e
    /\ raised' = e
    /\ pc' = "done"
    /\ UNCHANGED output

directVars == <<lst, n, result, server>>

InitMain ==
    /\ platform \in {"seller", "market"}
    /\ pc = IF platform = "seller" THEN "get_offer_ids" ELSE "download_stock"
    /\ account = IF platform = "seller" THEN "-" ELSE "FBS"
    /\ warehouse_id = IF platform = "seller" THEN "-" ELSE "WH_FBS"
    /\ watch_remnants = <<>> /\ catalog = <<>> /\ offer_ids = <<>>
    /\ stocks = <<>> /\ prices = <<>> /\ todo = <<>>
    /\ calls = <<>> /\ output = <<>> /\ coroutines = <<>>
    /\ raised = NoException /\ uncaught = NoException
    /\ date = Unused
    /\ lst = Unused /\ n = Unused /\ result = Unused /\ server = Unused

\* seller.py 386: get_offer_ids returns the marketplace's catalog or a page
\* request raises
SellerGetOfferIds ==
    /\ platform = "seller" /\ pc = "get_offer_ids"
    /\ \/ \E K \in MainKnownLists :
              /\ offer_ids' = K
              /\ catalog' = K
              /\ calls' = Append(calls, Call("get_offer_ids", account, K, TRUE))
              /\ pc' = "download_stock"
              /\ UNCHANGED <<output, raised, uncaught>>
       \/ \E e \in RequestErrors :
              /\ calls' = Append(calls,
                                 Call("get_offer_ids", account, <<>>, FALSE))
              /\ seller_try(e)
              /\ UNCHANGED <<offer_ids, catalog>>
    /\ UNCHANGED <<platform, watch_remnants, stocks, prices, todo, account,
                   coroutines, warehouse_id, date, directVars>>

\* seller.py 387
SellerDownloadStock ==
    /\ platform = "seller" /\ pc = "download_stock"
    /\ \/ \E I \in MainInventories :
              /\ watch_remnants' = I
              /\ calls' = Append(calls, Call("download_stock", "-", <<>>, TRUE))
              /\ pc' = "create_stocks"
              /\ UNCHANGED <<output, raised, uncaught>>
       \/ \E e \in DownloadErrors :
              /\ calls' = Append(calls,
                                 Call("download_stock", "-", <<>>, FALSE))
              /\ seller_try(e)
              /\ UNCHANGED watch_remnants
    /\ UNCHANGED <<platform, catalog, offer_ids, stocks, prices, todo, account,
                   coroutines, warehouse_id, date, directVars>>

\* seller.py 389-390: create_stocks, then the chunk list of the upload loop
SellerCreateStocks ==
    /\ platform = "seller" /\ pc = "create_stocks"
    /\ LET r == seller_create_stocks(watch_remnants, offer_ids)
       IN  /\ offer_ids' = r.offer_ids
           /\ IF r.raised
              THEN /\ seller_try(r.exception)
                   /\ UNCHANGED <<stocks, todo>>
              ELSE /\ stocks' = r.stocks
                   /\ todo' = divide(r.stocks, SELLER_STOCKS_CHUNK)
                   /\ pc' = IF todo' = <<>> THEN "create_prices"
                            ELSE "update_stocks"
                   /\ UNCHANGED <<output, raised, uncaught>>
    /\ UNCHANGED <<platform, watch_remnants, catalog, prices, account, calls,
                   coroutines, warehouse_id, date, directVars>>

\* seller.py 391: one update_stocks call of the loop
SellerUpdateStocks ==
    /\ platform = "seller" /\ pc = "update_stocks"
    /\ \/ /\ calls' = Append(calls,
                             Call("update_stocks", account, Head(todo), TRUE))
          /\ todo' = Tail(todo)
          /\ pc' = IF todo' = <<>> THEN "create_prices" ELSE "update_stocks"
          /\ UNCHANGED <<output, raised, uncaught>>
       \/ \E e \in RequestErrors :
              /\ calls' = Append(calls,
                             Call("update_stocks", account, Head(todo), FALSE))
              /\ seller_try(e)
              /\ UNCHANGED todo
    /\ UNCHANGED <<platform, watch_remnants, catalog, offer_ids, stocks, prices,
                   account, coroutines, warehouse_id, date, directVars>>

\* seller.py 393-394: create_prices on the list create_stocks has shrunk
SellerCreatePrices ==
    /\ platform = "seller" /\ pc = "create_prices"
    /\ LET r == seller_create_prices(watch_remnants, offer_ids)
       IN  /\ prices' = r.prices
           /\ todo' = divide(r.prices, SELLER_PRICES_CHUNK)
           /\ pc' = IF todo' = <<>> THEN "done" ELSE "update_price"
    /\ UNCHANGED <<platform, watch_remnants, catalog, offer_ids, stocks,
                   account, calls, output, raised, uncaught, coroutines,
                   warehouse_id, date, directVars>>

\* seller.py 395: one update_price call of the loop
SellerUpdatePrice ==
    /\ platform = "seller" /\ pc = "update_price"
    /\ \/ /\ calls' = Append(calls,
                             Call("update_price", account, Head(todo), TRUE))
          /\ todo' = Tail(todo)
          /\ pc' = IF todo' = <<>> THEN "done" ELSE "update_price"
          /\ UNCHANGED <<output, raised, uncaught>>
       \/ \E e \in RequestErrors :
              /\ calls' = Append(calls,
                             Call("update_price", account, Head(todo), FALSE))
              /\ seller_try(e)
              /\ UNCHANGED todo
    /\ UNCHANGED <<platform, watch_remnants, catalog, offer_ids, stocks, prices,
                   account, coroutines, warehouse_id, date, directVars>>

\* market.py 324: download_stock, called before the try statement
MarketDownloadStock ==
    /\ platform = "market" /\ pc = "download_stock"
    /\ \/ \E I \in MainInventories :
              /\ watch_remnants' = I
              /\ calls' = Append(calls, Call("download_stock", "-", <<>>, TRUE))
              /\ pc' = "get_offer_ids"
              /\ UNCHANGED <<output, raised, uncaught>>
       \/ \E e \in DownloadErrors :
              /\ calls' = Append(calls,
                                 Call("download_stock", "-", <<>>, FALSE))
              /\ market_no_try(e)
              /\ UNCHANGED watch_remnants
    /\ UNCHANGED <<platform, catalog, offer_ids, stocks, prices, todo, account,
                   coroutines, warehouse_id, date, directVars>>

\* market.py 327 and 336
MarketGetOfferIds ==
    /\ platform = "market" /\ pc = "get_offer_ids"
    /\ \/ \E K \in MainKnownLists :
              /\ offer_ids' = K
              /\ catalog' = K
              /\ calls' = Append(calls, Call("get_offer_ids", account, K, TRUE))
              /\ pc' = "create_stocks"
              /\ UNCHANGED <<output, raised, uncaught>>
       \/ \E e \in RequestErrors :
              /\ calls' = Append(calls,
                                 Call("get_offer_ids", account, <<>>, FALSE))
              /\ market_try(e)
              /\ UNCHANGED <<offer_ids, catalog>>
    /\ UNCHANGED <<platform, watch_remnants, stocks, prices, todo, account,
                   coroutines, warehouse_id, date, directVars>>

\* market.py 329-330 and 338-339
MarketCreateStocks ==
    /\ platform = "market" /\ pc = "create_stocks"
    /\ date' = "t0"
    /\ LET r == market_create_stocks(watch_remnants, offer_ids, warehouse_id,
                                     date')
       IN  /\ offer_ids' = r.offer_ids
           /\ IF r.raised
              THEN /\ market_try(r.exception)
                   /\ UNCHANGED <<stocks, todo>>
              ELSE /\ stocks' = r.stocks
                   /\ todo' = divide(r.stocks, MARKET_STOCKS_CHUNK)
                   /\ pc' = IF todo' = <<>> THEN "upload_prices"
                            ELSE "update_stocks"
                   /\ UNCHANGED <<output, raised, uncaught>>
    /\ UNCHANGED <<platform, watch_remnants, catalog, prices, account, calls,
                   coroutines, warehouse_id, directVars>>

\* market.py 331 and 340
MarketUpdateStocks ==
    /\ platform = "market" /\ pc = "update_stocks"
    /\ \/ /\ calls' = Append(calls,
                             Call("update_stocks", account, Head(todo), TRUE))
          /\ todo' = Tail(todo)
          /\ pc' = IF todo' = <<>> THEN "upload_prices" ELSE "update_stocks"
          /\ UNCHANGED <<output, raised, uncaught>>
       \/ \E e \in RequestErrors :
              /\ calls' = Append(calls,
                             Call("update_stocks", account, Head(todo), FALSE))
              /\ market_try(e)
              /\ UNCHANGED todo
    /\ UNCHANGED <<platform, watch_remnants, catalog, offer_ids, stocks, prices,
                   account, coroutines, warehouse_id, date, directVars>>

\* market.py 333 and 342: upload_prices is declared "async def", so the call
\* only builds a coroutine object; nothing awaits it or hands it to an event
\* loop, hence its body (lines 298-302) never runs. Then the next campaign.
MarketUploadPrices ==
    /\ platform = "market" /\ pc = "upload_prices"
    /\ coroutines' = Append(coroutines,
                            [function |-> "upload_prices", campaign |-> account,
                             started |-> FALSE])
    /\ IF account = "FBS"
       THEN /\ account' = "DBS"
            /\ warehouse_id' = "WH_DBS"
            /\ pc' = "get_offer_ids"
       ELSE /\ pc' = "done"
            /\ UNCHANGED <<account, warehouse_id>>
    /\ UNCHANGED <<platform, watch_remnants, catalog, offer_ids, stocks, prices,
                   todo, calls, output, raised, uncaught, date, directVars>>

NextMain ==
    \/ SellerGetOfferIds
    \/ SellerDownloadStock
    \/ SellerCreateStocks
    \/ SellerUpdateStocks
    \/ SellerCreatePrices
    \/ SellerUpdatePrice
    \/ MarketDownloadStock
    \/ MarketGetOfferIds
    \/ MarketCreateStocks
    \/ MarketUpdateStocks
    \/ MarketUploadPrices

SpecMain == InitMain /\ [][NextMain]_vars

-----------------------------------------------------------------------------
(* Properties of the orchestrators *)

Finished == pc = "done"

FailureFree == Finished /\ raised = NoException

CallIdx(op, acct) ==
    {i \in 1..Len(calls) : calls[i].op = op /\ calls[i].account = acct}

\* offer ids of the price records sent so far, in sending order
RECURSIVE UploadedPriceIds(_)
UploadedPriceIds(cs) ==
    IF cs = <<>> THEN <<>>
    ELSE (IF Head(cs).op = "update_price" /\ Head(cs).ok
          THEN [j \in 1..Len(Head(cs).payload) |-> Head(cs).payload[j].offer_id]
          ELSE <<>>) \o UploadedPriceIds(Tail(cs))

\* codes of the inventory records whose code is in the fetched catalog
RECURSIVE CodesInCatalog(_)
CodesInCatalog(wr) ==
    IF wr = <<>> THEN <<>>
    ELSE (IF Known(Head(wr).Kod) THEN <<Head(wr).Kod>> ELSE <<>>)
             \o CodesInCatalog(Tail(wr))

\* C2: a failure-free run of seller.main uploads exactly one price record per
\* inventory record whose code is in the fetched catalog.
C2_SellerPricesUploaded ==
    (platform = "seller" /\ FailureFree) =>
        UploadedPriceIds(calls) = CodesInCatalog(watch_remnants)

\* the catalog of campaign acct, as its get_offer_ids call returned it
FetchedCatalog(acct) ==
    calls[CHOOSE i \in CallIdx("get_offer_ids", acct) : TRUE].payload

\* C3: in a failure-free run of market.main the body of each upload_prices
\* call runs where it is called: every offer of the campaign's catalog that
\* has an inventory record is sent in an update_price call of that campaign,
\* issued after the campaign's stock uploads and before the next campaign's
\* catalog fetch.
C3_MarketPricesUploaded ==
    (platform = "market" /\ FailureFree) =>
        \A acct \in {"FBS", "DBS"} :
            \A i \in 1..Len(watch_remnants) :
                In(watch_remnants[i].Kod, FetchedCatalog(acct)) =>
                    \E u \in CallIdx("update_price", acct) :
                        /\ calls[u].ok
                        /\ \E j \in 1..Len(calls[u].payload) :
                               calls[u].payload[j].id = watch_remnants[i].Kod
                        /\ \A k \in CallIdx("update_stocks", acct) : k < u
                        /\ acct = "FBS" =>
                               \A k \in CallIdx("get_offer_ids", "DBS") : u < k

ApiOps == {"get_offer_ids", "update_stocks", "update_price"}

\* C5: a failed API call is the last call of the run: nothing is issued after
\* it (no remaining chunk, no price upload, no second campaign, no second
\* attempt), and the run has printed one message and ended.
C5_AbortOnFailure ==
    \A i \in 1..Len(calls) :
        (calls[i].op \in ApiOps /\ ~calls[i].ok) =>
            /\ i = Len(calls)
            /\ Finished
            /\ Len(output) = 1
            /\ uncaught = NoException

\* a stock chunk failed with chunks still unsent: they stay unsent
C5_Witness ==
    /\ Len(calls) >= 3
    /\ calls[Len(calls)].op = "update_stocks" /\ ~calls[Len(calls)].ok
    /\ Len(todo) >= 2
    /\ Finished /\ Len(output) = 1

\* C6: a failed inventory download is caught by the top-level handler and
\* printed; it never leaves main uncaught.
C6_DownloadFailureCaught ==
    \A i \in 1..Len(calls) :
        (calls[i].op = "download_stock" /\ ~calls[i].ok) =>
            /\ uncaught = NoException
            /\ Len(output) = 1

\* the message the specification assigns to a failure kind
ExpectedMessage(e) ==
    CASE e = "ReadTimeout" -> "timed out"
      [] e = "ConnectionError" -> "connection error"
      [] OTHER -> "ERROR_2"

\* C7: every failure raised in the pipeline produces exactly one message,
\* chosen by the failure kind; the connection message carries the error.
C7_ErrorClassification ==
    /\ raised = NoException => output = <<>>
    /\ raised # NoException =>
           /\ Len(output) = 1
           /\ output[1].message = ExpectedMessage(raised)
           /\ raised # "ReadTimeout" => output[1].error = raised

-----------------------------------------------------------------------------
(* Order and size of the stock transform's output, and its effect on the   *)
(* caller's list                                                           *)

\* the records the first loop matches, counted per code
MatchedCount(id) ==
    Cardinality({i \in 1..Len(watch_remnants) :
                     IsMatched(i) /\ watch_remnants[i].Kod = id})

\* position j of the known list outlives the call: the occurrences of its id
\* before it already account for every matched record of that id
Outlives(j) ==
    Cardinality({k \in 1..(j - 1) : catalog[k] = catalog[j]})
        >= MatchedCount(catalog[j])

\* the known list without the positions the matches used up, from j on
RECURSIVE UnmatchedFrom(_)
UnmatchedFrom(j) ==
    IF j > Len(catalog) THEN <<>>
    ELSE (IF Outlives(j) THEN <<catalog[j]>> ELSE <<>>) \o UnmatchedFrom(j + 1)

-----------------------------------------------------------------------------
(* Frame of the price transform *)

\* C13: when create_prices returns (seller and market), the known-offer-id
\* list it was given holds the same elements in the same order as before
\* the call, and the call leaves the inventory records as they were.
C13_PriceInputsUnchanged ==
    /\ [](\A v \in Variants :
              Returned(v) => result[v].ret.offer_ids = catalog)
    /\ [][(CallSellerCreatePrices \/ CallMarketCreatePrices) =>
              (watch_remnants' = watch_remnants /\ catalog' = catalog)]_vars

\* both variants priced a record and left the two-or-more known ids in place
C13_Witness ==
    /\ Returned("seller") /\ Returned("market")
    /\ Len(catalog) >= 2
    /\ Len(PriceView("seller")) >= 1 /\ Len(PriceView("market")) >= 1
    /\ result["seller"].ret.offer_ids = catalog
    /\ result["market"].ret.offer_ids = catalog

-----------------------------------------------------------------------------
\* Catalog fetch: get_offer_ids of both platforms against a paginated server

\* what one page of the product list may hold
PageContents == {<<>>, <<"A">>, <<"B", "A">>}

\* the seller's "items" and the market's "offerMappingEntries" of a page
SellerItems(ids) == [i \in 1..Len(ids) |-> [offer_id |-> ids[i]]]
MarketEntries(ids) == [i \in 1..Len(ids) |-> [offer |-> [shopSku |-> ids[i]]]]

\* A seller server serves its pages one per request, the cursor last_id being
\* the number of pages already served ("" is 0), and reports `total` with
\* every response; past the last page it serves empty pages.
SellerServers ==
    {[pages |-> ps, total |-> t] :
         ps \in SeqsOf({SellerItems(c) : c \in PageContents}, 0, MaxPages),
         t \in 0..(2 * MaxPages)}

\* A market server's page names the page that follows it by nextPageToken,
\* 0 standing for no token; the empty token "" asks for the first page.
MarketServers ==
    {[pages |-> ps] :
         ps \in UNION {[1..len -> [entries : {MarketEntries(c) : c \in PageContents},
                                   next : 0..len]] : len \in 1..MaxPages}}

\* result of seller.get_product_list(last_id, ...)
seller_get_product_list(last_id) ==
    IF last_id < Len(server.pages)
    THEN [items |-> server.pages[last_id + 1], total |-> server.total,
          last_id |-> last_id + 1]
    ELSE [items |-> <<>>, total |-> server.total, last_id |-> last_id]

\* result of market.get_product_list(page, ...)
market_get_product_list(page) ==
    LET p == IF page = 0 THEN 1 ELSE page
    IN  [offerMappingEntries |-> server.pages[p].entries,
         paging |-> [nextPageToken |-> server.pages[p].next]]

seller_loop_break_at_least(total, product_list) == total <= Len(product_list)

\* if total == len(product_list): break
seller_loop_break(total, product_list) == total = Len(product_list)

\* if not page: break
market_loop_break(page) == page = 0

\* for product in product_list: offer_ids.append(product.get("offer_id"))
seller_collect(product_list) ==
    [i \in 1..Len(product_list) |-> product_list[i].offer_id]

\* for product in product_list:
\*     offer_ids.append(product.get("offer").get("shopSku"))
market_collect(product_list) ==
    [i \in 1..Len(product_list) |-> product_list[i].offer.shopSku]

fetchIdle ==
    /\ offer_ids = Unused /\ stocks = Unused /\ prices = Unused
    /\ todo = Unused /\ account = Unused /\ output = Unused
    /\ uncaught = Unused /\ coroutines = Unused /\ raised = Unused
    /\ watch_remnants = Unused /\ catalog = Unused
    /\ warehouse_id = Unused /\ date = Unused
    /\ lst = Unused /\ n = Unused

fetchPassive == <<platform, server, offer_ids, stocks, prices, todo, account,
                  output, uncaught, coroutines, raised, watch_remnants,
                  catalog, warehouse_id, date, lst, n>>

\* entry of get_offer_ids: the cursor is "", product_list is []
InitFetch ==
    /\ fetchIdle
    /\ pc = "get_product_list"
    /\ calls = <<>>
    /\ \/ /\ platform = "seller"
          /\ server \in SellerServers
          /\ result = [last_id |-> 0, product_list |-> <<>>,
                       offer_ids |-> Unused]
       \/ /\ platform = "market"
          /\ server \in MarketServers
          /\ result = [page |-> 0, product_list |-> <<>>,
                       offer_ids |-> Unused]

\* one pass of seller.get_offer_ids' while loop
SellerFetchPage ==
    /\ platform = "seller" /\ pc = "get_product_list"
    /\ Len(calls) < MaxRequests
    /\ LET some_prod == seller_get_product_list(result.last_id)
           extended == result.product_list \o some_prod.items
       IN  /\ calls' = Append(calls, [cursor |-> result.last_id,
                                      response |-> some_prod])
           /\ result' = [result EXCEPT !.product_list = extended,
                                       !.last_id = some_prod.last_id]
           /\ pc' = IF seller_loop_break(some_prod.total, extended)
                    THEN "collect" ELSE "get_product_list"
    /\ UNCHANGED fetchPassive

\* after the break: seller.get_offer_ids builds and returns offer_ids
SellerFetchReturn ==
    /\ platform = "seller" /\ pc = "collect"
    /\ result' = [result EXCEPT
                     !.offer_ids = seller_collect(result.product_list)]
    /\ pc' = "returned"
    /\ UNCHANGED <<calls, fetchPassive>>

\* one pass of market.get_offer_ids' while loop
MarketFetchPage ==
    /\ platform = "market" /\ pc = "get_product_list"
    /\ Len(calls) < MaxRequests
    /\ LET some_prod == market_get_product_list(result.page)
           page == some_prod.paging.nextPageToken
       IN  /\ calls' = Append(calls, [cursor |-> result.page,
                                      response |-> some_prod])
           /\ result' = [result EXCEPT
                            !.product_list = @ \o some_prod.offerMappingEntries,
                            !.page = page]
           /\ pc' = IF market_loop_break(page)
                    THEN "collect" ELSE "get_product_list"
    /\ UNCHANGED fetchPassive

\* after the break: market.get_offer_ids builds and returns offer_ids
MarketFetchReturn ==
    /\ platform = "market" /\ pc = "collect"
    /\ result' = [result EXCEPT
                     !.offer_ids = market_collect(result.product_list)]
    /\ pc' = "returned"
    /\ UNCHANGED <<calls, fetchPassive>>

NextFetch ==
    \/ SellerFetchPage
    \/ SellerFetchReturn
    \/ MarketFetchPage
    \/ MarketFetchReturn

\* get_offer_ids is a running sequential function: its next statement is
\* always executed.
SpecFetch == InitFetch /\ [][NextFetch]_vars /\ WF_vars(NextFetch)

\* offer ids of the page the k-th request was answered with
PageIds(k) ==
    IF platform = "seller" THEN seller_collect(calls[k].response.items)
    ELSE market_collect(calls[k].response.offerMappingEntries)

\* offer ids of the first k pages fetched, in page order then in-page order
RECURSIVE FetchedIds(_)
FetchedIds(k) == IF k = 0 THEN <<>> ELSE FetchedIds(k - 1) \o PageIds(k)

\* every offer id the seller server has, in serving order
RECURSIVE ServedIds(_)
ServedIds(k) ==
    IF k = 0 THEN <<>>
    ELSE ServedIds(k - 1) \o seller_collect(server.pages[k])

\* the market server's token chain from page p ends within `fuel` pages
RECURSIVE ChainEnds(_, _)
ChainEnds(p, fuel) ==
    /\ fuel > 0
    /\ \/ server.pages[p].next = 0
       \/ ChainEnds(server.pages[p].next, fuel - 1)

\* offer ids along the market server's token chain from page p
RECURSIVE ChainIds(_, _)
ChainIds(p, fuel) ==
    IF fuel = 0 THEN <<>>
    ELSE market_collect(server.pages[p].entries)
             \o (IF server.pages[p].next = 0 THEN <<>>
                 ELSE ChainIds(server.pages[p].next, fuel - 1))

\* the server's pages eventually end
PagesEnd ==
    IF platform = "seller"
    THEN server.total = Len(ServedIds(Len(server.pages)))
    ELSE ChainEnds(1, Len(server.pages))

Looping == pc = "get_product_list"

C12_Accumulates ==
    /\ \A k \in 1..Len(calls) :
           calls[k].cursor =
               IF k = 1 THEN 0
               ELSE IF platform = "seller" THEN calls[k - 1].response.last_id
               ELSE calls[k - 1].response.paging.nextPageToken
    /\ LET collected == IF platform = "seller"
                        THEN seller_collect(result.product_list)
                        ELSE market_collect(result.product_list)
       IN  collected = FetchedIds(Len(calls))
    /\ pc = "returned" => result.offer_ids = FetchedIds(Len(calls))
    /\ pc # "returned" => result.offer_ids = Unused

C12_StopsExactly ==
    \A k \in 1..Len(calls) :
        LET last == k = Len(calls) /\ ~Looping
        IN  IF platform = "seller"
            THEN (Len(FetchedIds(k)) = calls[k].response.total) <=> last
            ELSE (calls[k].response.paging.nextPageToken = 0) <=> last

C12_Complete ==
    (PagesEnd /\ pc = "returned") =>
        /\ Len(calls) >= 1
        /\ Len(calls) <= IF Len(server.pages) = 0 THEN 1 ELSE Len(server.pages)
        /\ result.offer_ids = IF platform = "seller"
                              THEN ServedIds(Len(server.pages))
                              ELSE ChainIds(1, Len(server.pages))

\* C12: against a server whose pages eventually end (market: the token chain
\* reaches a response without nextPageToken; seller: the reported total is
\* the number of items served), get_offer_ids returns after finitely many
\* page requests; what it returns is the offer ids of the pages fetched, in
\* page order then in-page order; market stops at the first response without
\* a token, seller exactly when the accumulated count equals the total.
C12_FetchTerminates ==
    /\ [](C12_Accumulates /\ C12_StopsExactly /\ C12_Complete)
    /\ (PagesEnd ~> pc = "returned")

\* a seller catalog of two non-empty pages, fetched with two requests
C12_Witness ==
    /\ platform = "seller" /\ pc = "returned" /\ PagesEnd
    /\ Len(calls) = 2
    /\ calls[1].response.items # <<>> /\ calls[2].response.items # <<>>
    /\ result.offer_ids = seller_collect(calls[1].response.items)
                              \o seller_collect(calls[2].response.items)

\* a market catalog whose second page carries no token, fetched in two requests
C12_WitnessMarket ==
    /\ platform = "market" /\ pc = "returned" /\ PagesEnd
    /\ Len(calls) = 2
    /\ calls[1].response.paging.nextPageToken = 2
    /\ Len(result.offer_ids) >= 2

-----------------------------------------------------------------------------
\* Transform before upload, in the orchestrator runs

\* payloads of the calls of op answered for acct, concatenated in call order
RECURSIVE SentBy(_, _, _)
SentBy(cs, op, acct) ==
    IF cs = <<>> THEN <<>>
    ELSE (IF Head(cs).op = op /\ Head(cs).account = acct /\ Head(cs).ok
          THEN Head(cs).payload ELSE <<>>) \o SentBy(Tail(cs), op, acct)

StockId(s) == IF platform = "seller" THEN s.offer_id ELSE s.sku

\* a record the stock transform of the current account matches has a
\* quantity that is neither ">10" nor "1" nor an integer literal
BadQuantity ==
    \E i \in 1..Len(watch_remnants) :
        /\ IsMatched(i)
        /\ ~IsSpecial(watch_remnants[i].Kolichestvo)
        /\ PyInt(watch_remnants[i].Kolichestvo).raised

\* records the seller's price transform is handed a known code for
PriceMatched ==
    {i \in 1..Len(watch_remnants) : In(watch_remnants[i].Kod, offer_ids)}

\* a record the seller's price transform matches has no digit to read a
\* price from
BadPrice ==
    \E i \in PriceMatched : DigitsBeforeDot(watch_remnants[i].Cena) = <<>>

PricesCreated == platform = "seller" /\ pc \in {"update_price", "done"}

\* the stock upload of the current account works on the finished transform
C15_StocksWhole ==
    /\ CallIdx("update_stocks", account) # {} =>
           /\ Len(stocks) = Len(catalog)
           /\ \A i \in 1..Len(watch_remnants) :
                  IsMatched(i) =>
                      StockId(stocks[MatchedBefore(i)]) = watch_remnants[i].Kod
    /\ pc = "update_stocks" =>
           SentBy(calls, "update_stocks", account) \o Flatten(todo) = stocks

\* the seller's price upload works on the finished transform
C15_PricesWhole ==
    /\ CallIdx("update_price", account) # {} =>
           Len(prices) = Cardinality(PriceMatched)
    /\ pc = "update_price" =>
           SentBy(calls, "update_price", account) \o Flatten(todo) = prices

C15_NoStockUploadOnBadQuantity ==
    BadQuantity => /\ CallIdx("update_stocks", account) = {}
                   /\ CallIdx("update_price", account) = {}

\* C15 as stated: neither an unparsable quantity nor an unparsable price of
\* a matched record lets an upload call of its operation be issued.
C15_AsStated ==
    /\ C15_NoStockUploadOnBadQuantity
    /\ (PricesCreated /\ BadPrice) => CallIdx("update_price", account) = {}

\* C15: an operation's first upload call is issued after its transform has
\* gone through every inventory record, and the chunks sent are consecutive
\* pieces of the transform's whole output; a matched record whose quantity
\* is no integer stops the run before any stock or price upload of that
\* account; calls already made stay made. The seller's price transform
\* parses nothing: a matched record without a digit in its price does not
\* stop the upload, a failure-free seller run sends one price record per
\* matched inventory record.
C15_TransformBeforeUpload ==
    /\ [](/\ C15_StocksWhole
          /\ C15_PricesWhole
          /\ C15_NoStockUploadOnBadQuantity
          /\ (platform = "seller" /\ FailureFree) =>
                 Len(SentBy(calls, "update_price", account))
                     = Cardinality(PriceMatched))
    /\ [][/\ Len(calls') >= Len(calls)
          /\ SubSeq(calls', 1, Len(calls)) = calls]_vars

\* the FBS stock upload went through, then a DBS quantity failed to parse:
\* no DBS stock call, the FBS calls are still there
C15_Witness ==
    /\ platform = "market" /\ account = "DBS" /\ Finished
    /\ raised = "ValueError" /\ BadQuantity
    /\ CallIdx("update_stocks", "FBS") # {}
    /\ \A i \in CallIdx("update_stocks", "FBS") : calls[i].ok
    /\ CallIdx("update_stocks", "DBS") = {}

\* a seller run that uploads the price of a record without a digit
C15_WitnessSellerPrice ==
    /\ platform = "seller" /\ FailureFree /\ BadPrice
    /\ \E i \in CallIdx("update_price", account) :
           \E j \in 1..Len(calls[i].payload) : calls[i].payload[j].price = <<>>

====
